---- MODULE Spec2Model ----
(***************************************************************************)
(* PyMove: the convergence cleaning engine of preprocessing/filters.py and *)
(* the similarity queries of query/query.py.                               *)
(*                                                                         *)
(* A dataframe is a record [rows, cols, named]: its rows in order, the set *)
(* of feature columns it carries and whether its index has a name.  A row  *)
(* carries its index label ix, its trajectory id, a position on a line     *)
(* (standing for latitude/longitude), a timestamp t and the three motion   *)
(* features.  A feature is <<>> (NaN), <<v>> (dist_to_prev, time_to_prev)  *)
(* or <<d, s>> (speed_to_prev, the exact quotient d / s).                  *)
(***************************************************************************)
EXTENDS Integers, Sequences, FiniteSets, TLC

\* ---------------------------------------------------------------- bounds
\* points in a collection to clean; largest threshold; rows of a candidate
\* collection to query; largest k
MaxPts == 3
MaxThr == 1
MaxRows == 3
MaxK == 2

Positions == {0, 1, 2}
TimeSteps == {1, 2}
Thresholds == 0..MaxThr
ConvergenceOps == {"nearby_distance", "nearby_speed", "speed_max_radius"}

VARIABLES
    frames,        \* the dataframe objects: the caller's and the private copy
    md,            \* which object the local name move_data is bound to
    args,          \* the arguments of the running call: op, thr, inplace
    fdp,           \* filter_data_points: the rows the predicate selected
    rows_to_drop,  \* filter_data_points.shape[0]
    sum_drop,      \* rows dropped so far by this call
    ret,           \* what the call returned: "pending", "None" or an object
    pc,            \* "idle", "loop", "done"
    calls,         \* number of calls made on this collection
    caller0,       \* history: the caller's dataframe when the call began
    in0,           \* history: move_data when the predicate first saw it
    out1,          \* history: the rows the first call left
    move_df,       \* query: the candidate collection, as the ids of its rows
    qargs,         \* query: op, k, min_dist, distance (the measure selector)
    uniq,          \* query: move_df[id].unique(), the ids being iterated
    at,            \* query: how many ids of uniq the loop has taken
    k_list,        \* knn: the Top-K List
    visited,       \* history: the ids measured so far, with their distances
    result,        \* query: the result dataframe, as its rows
    qpc            \* "idle", "range", "knn", "done", "error"

cleanVars == <<frames, md, args, fdp, rows_to_drop, sum_drop, ret, pc, calls,
               caller0, in0, out1>>

queryVars == <<move_df, qargs, uniq, at, k_list, visited, result, qpc>>

vars == <<cleanVars, queryVars>>

\* ---------------------------------------------------------------- values
NaN == <<>>

Abs(x) == IF x < 0 THEN 0 - x ELSE x

\* subsequence of s at the positions in S, in order
Pick(s, S) ==
    LET idx == SelectSeq([i \in 1..Len(s) |-> i], LAMBDA i : i \in S)
    IN  [j \in 1..Len(idx) |-> s[idx[j]]]

Labels(rs) == {rs[i].ix : i \in 1..Len(rs)}

\* a row without its index label and features: what identifies a point
Point(r) == [id |-> r.id, pos |-> r.pos, t |-> r.t]

Points(rs) == [i \in 1..Len(rs) |-> Point(rs[i])]

\* ------------------------------------------------ motion feature provider
\* position of the previous row of the same trajectory, 0 when none
PrevSame(rs, i) ==
    LET c == {j \in 1..(i - 1) : rs[j].id = rs[i].id}
    IN  IF c = {} THEN 0 ELSE CHOOSE j \in c : \A k \in c : k <= j

DistToPrev(rs, i) ==
    LET j == PrevSame(rs, i)
    IN  IF j = 0 THEN NaN ELSE <<Abs(rs[i].pos - rs[j].pos)>>

TimeToPrev(rs, i) ==
    LET j == PrevSame(rs, i)
    IN  IF j = 0 THEN NaN ELSE <<rs[i].t - rs[j].t>>

SpeedToPrev(rs, i) ==
    LET j == PrevSame(rs, i)
    IN  IF j = 0 THEN NaN
        ELSE <<Abs(rs[i].pos - rs[j].pos), rs[i].t - rs[j].t>>

generate_dist_features(df) ==
    [df EXCEPT !.rows = [i \in 1..Len(df.rows) |->
                            [df.rows[i] EXCEPT !.dist = DistToPrev(df.rows, i)]],
               !.cols = df.cols \cup {"dist_to_prev"}]

generate_dist_time_speed_features(df) ==
    [df EXCEPT !.rows = [i \in 1..Len(df.rows) |->
                            [df.rows[i] EXCEPT !.dist = DistToPrev(df.rows, i),
                                               !.time = TimeToPrev(df.rows, i),
                                               !.speed = SpeedToPrev(df.rows, i)]],
               !.cols = df.cols \cup {"dist_to_prev", "time_to_prev", "speed_to_prev"}]

\* ------------------------------------------------------ float comparisons
\* x <= v and x > v for a feature x; every comparison with NaN is false
Le(x, v) == /\ x # NaN
            /\ IF Len(x) = 1 THEN x[1] <= v ELSE x[1] <= v * x[2]

Gt(x, v) == /\ x # NaN
            /\ IF Len(x) = 1 THEN x[1] > v ELSE x[1] > v * x[2]

\* np.nan_to_num
nan_to_num(x) == IF x = NaN THEN <<0>> ELSE x

\* the column arg1 of a row
Col(r, arg1) ==
    CASE arg1 = "dist_to_prev" -> r.dist
      [] arg1 = "time_to_prev" -> r.time
      [] arg1 = "speed_to_prev" -> r.speed

\* pandas Series.shift(1): the value of the row before, NaN at the first row
Shift1(rs, arg1, i) == IF i = 1 THEN NaN ELSE Col(rs[i - 1], arg1)

\* ------------------------------------------------------------- predicates
filter_single_by_max_gt(move_data, arg1, arg2) ==
    Pick(move_data.rows,
         {i \in 1..Len(move_data.rows) : Gt(Col(move_data.rows[i], arg1), arg2)})

filter_single_by_max_nan0(move_data, arg1, arg2) ==
    Pick(move_data.rows,
         {i \in 1..Len(move_data.rows) :
              Le(nan_to_num(Col(move_data.rows[i], arg1)), arg2)})

filter_single_by_max(move_data, arg1, arg2) ==
    Pick(move_data.rows,
         {i \in 1..Len(move_data.rows) : Le(Col(move_data.rows[i], arg1), arg2)})

filter_speed_max_radius_own(move_data, arg1, arg2) ==
    Pick(move_data.rows,
         {i \in 1..Len(move_data.rows) :
              Gt(nan_to_num(Col(move_data.rows[i], arg1)), arg2)})

filter_speed_max_radius(move_data, arg1, arg2) ==
    Pick(move_data.rows,
         {i \in 1..Len(move_data.rows) :
              \/ Gt(nan_to_num(Shift1(move_data.rows, arg1, i)), arg2)
              \/ Gt(nan_to_num(Col(move_data.rows[i], arg1)), arg2)})

\* the feature a convergence operation tests
Feature(op) == IF op = "nearby_distance" THEN "dist_to_prev" ELSE "speed_to_prev"

\* _filter_data with outliers = False: f(move_data, arg1, arg2)
filter_data(move_data, op, thr) ==
    IF op = "speed_max_radius"
    THEN filter_speed_max_radius(move_data, Feature(op), thr)
    ELSE filter_single_by_max(move_data, Feature(op), thr)

\* ----------------------------------------------------- dataframe methods
\* DataFrame.reset_index(inplace=True): a dense default index, no name
reset_index(df) ==
    [df EXCEPT !.rows = [i \in 1..Len(df.rows) |-> [df.rows[i] EXCEPT !.ix = i - 1]],
               !.cols = df.cols \cup {"index"},
               !.named = FALSE]

drop_nothing(df, labels) == df

\* a drop that brings the motion features up to date afterwards
drop_then_regenerate(df, labels) ==
    LET d == [df EXCEPT !.rows = SelectSeq(df.rows, LAMBDA r : r.ix \notin labels)]
    IN  [d EXCEPT !.rows = [i \in 1..Len(d.rows) |->
                               [d.rows[i] EXCEPT !.dist = DistToPrev(d.rows, i),
                                                 !.time = TimeToPrev(d.rows, i),
                                                 !.speed = SpeedToPrev(d.rows, i)]]]

\* DataFrame.drop(index=labels, inplace=True)
drop(df, labels) ==
    [df EXCEPT !.rows = SelectSeq(df.rows, LAMBDA r : r.ix \notin labels)]

ensure_features_always(df, op) ==
    IF op = "nearby_distance" THEN generate_dist_features(df)
    ELSE generate_dist_time_speed_features(df)

\* if <feature> not in move_data: move_data.generate_...()
ensure_features(df, op) ==
    IF Feature(op) \in df.cols THEN df
    ELSE IF op = "nearby_distance" THEN generate_dist_features(df)
    ELSE generate_dist_time_speed_features(df)

\* if move_data.index.name is not None: move_data.reset_index(inplace=True)
reset_if_named(df) == IF df.named THEN reset_index(df) ELSE df

\* groupby(label_tid).size(), for one trajectory
GroupSize(rs, tid) == Cardinality({i \in 1..Len(rs) : rs[i].id = tid})

few_points_idx_le(df, min_points) ==
    Pick(df.rows,
         {i \in 1..Len(df.rows) : GroupSize(df.rows, df.rows[i].id) <= min_points})

\* clean_trajectories_with_few_points: the rows of the trajectories whose
\* size is below min_points_per_trajectory
few_points_idx(df, min_points) ==
    Pick(df.rows,
         {i \in 1..Len(df.rows) : GroupSize(df.rows, df.rows[i].id) < min_points})

\* the columns every collection has, and "label in move_data"
BaseCols == {"id", "lat", "lon", "datetime"}

has_column(df, label) == label \in BaseCols \cup df.cols

at_column_check_reset(df) == IF df.named THEN reset_index(df) ELSE df

\* move_data as it stands when clean_trajectories_with_few_points tests
\* label_tid: nothing has touched it yet
at_column_check(df) == df

\* groupby(label_id).agg({arg1: 'sum'}), for one trajectory; sum skips NaN
RECURSIVE GroupSum(_, _, _)
GroupSum(rs, tid, arg1) ==
    IF rs = <<>> THEN 0
    ELSE GroupSum(Tail(rs), tid, arg1)
         + (IF rs[1].id = tid THEN nan_to_num(Col(rs[1], arg1))[1] ELSE 0)

short_idx_le(df, min_trajectory_distance) ==
    Pick(df.rows,
         {i \in 1..Len(df.rows) :
              GroupSum(df.rows, df.rows[i].id, "dist_to_prev") <= min_trajectory_distance})

\* clean_trajectories_short_and_few_points: the rows of the trajectories whose
\* summed dist_to_prev is below min_trajectory_distance
short_idx(df, min_trajectory_distance) ==
    Pick(df.rows,
         {i \in 1..Len(df.rows) :
              GroupSum(df.rows, df.rows[i].id, "dist_to_prev") < min_trajectory_distance})

time_idx_gt(df, time_max) ==
    Pick(df.rows,
         {i \in 1..Len(df.rows) :
              GroupSum(df.rows, df.rows[i].id, "time_to_prev") > time_max})

\* clean_id_by_time_max: the rows of the ids whose summed time_to_prev is
\* below time_max
time_idx(df, time_max) ==
    Pick(df.rows,
         {i \in 1..Len(df.rows) :
              GroupSum(df.rows, df.rows[i].id, "time_to_prev") < time_max})

\* if not Len(idx) > 0 nothing is dropped
drop_if_any(df, idx) == IF Len(idx) > 0 THEN drop(df, Labels(idx)) ELSE df

bind_without_copy(f, inplace) == [frames |-> f, md |-> "caller"]

\* if not inplace: move_data = move_data.copy()
\* the objects afterwards, and the one the name move_data is bound to
bind_move_data(f, inplace) ==
    IF inplace THEN [frames |-> f, md |-> "caller"]
    ELSE [frames |-> [f EXCEPT !.copy = f.caller], md |-> "copy"]

\* ------------------------------------------------------------------ inputs
EmptyFrame == [rows |-> <<>>, cols |-> {}, named |-> FALSE]

\* timestamp of row i: the time steps up to it, summed
RECURSIVE TimeAt(_, _)
TimeAt(st, i) == IF i = 0 THEN 0 ELSE TimeAt(st, i - 1) + st[i]

\* n raw points without features: the first k of trajectory 1, the rest of
\* trajectory 2, each trajectory in time order; the index is the default one,
\* or a named one whose labels are not dense
RawFrame(n, k, pos, st, named) ==
    [rows  |-> [i \in 1..n |->
                   [ix    |-> IF named THEN 2 * i ELSE i - 1,
                    id    |-> IF i <= k THEN 1 ELSE 2,
                    pos   |-> pos[i],
                    t     |-> TimeAt(st, i),
                    dist  |-> NaN,
                    time  |-> NaN,
                    speed |-> NaN]],
     cols  |-> {},
     named |-> named]

\* the time step of a trajectory's first point has no effect: it is fixed
StepsOf(n, k) ==
    {st \in [1..n -> TimeSteps] :
        \A i \in 1..n : (i = 1 \/ i = k + 1) => st[i] = 1}

InputsOf(n) ==
    UNION {UNION {{RawFrame(n, k, pos, st, named) :
                      pos \in [1..n -> Positions], named \in BOOLEAN} :
                  st \in StepsOf(n, k)} :
           k \in IF n = 0 THEN {0} ELSE 1..n}

Inputs == UNION {InputsOf(n) : n \in 0..MaxPts}

\* ----------------------------------------------------------- cleaning calls
NoArgs == [op |-> "none", thr |-> 0, inplace |-> FALSE]

NoOut == [points |-> <<>>, dropped |-> 0]

MinPoints == 1..(MaxThr + 1)

Limits == 0..(MaxThr + 1)

TidLabels == {"id", "tid"}

InitClean ==
    /\ \E df \in Inputs : frames = [caller |-> df, copy |-> EmptyFrame]
    /\ md = "caller"
    /\ args = NoArgs
    /\ fdp = <<>>
    /\ rows_to_drop = 0
    /\ sum_drop = 0
    /\ ret = "pending"
    /\ pc = "idle"
    /\ calls = 0
    /\ caller0 = EmptyFrame
    /\ in0 = EmptyFrame
    /\ out1 = NoOut

\* clean_gps_nearby_points_by_distances, clean_gps_nearby_points_by_speed,
\* clean_gps_speed_max_radius: from entry to _clean_gps's first predicate
\* evaluation
Enter(a) ==
    LET b   == bind_move_data(frames, a.inplace)
        df  == reset_if_named(ensure_features(b.frames[b.md], a.op))
        sel == filter_data(df, a.op, a.thr)
    IN  /\ frames' = [b.frames EXCEPT ![b.md] = df]
        /\ md' = b.md
        /\ args' = a
        /\ fdp' = sel
        /\ rows_to_drop' = Len(sel)
        /\ sum_drop' = 0
        /\ ret' = "pending"
        /\ pc' = "loop"
        /\ calls' = calls + 1
        /\ caller0' = frames.caller
        /\ in0' = df

Call ==
    /\ pc = "idle"
    /\ \E op \in ConvergenceOps, thr \in Thresholds, inplace \in BOOLEAN :
          Enter([op |-> op, thr |-> thr, inplace |-> inplace])
    /\ UNCHANGED out1
    /\ UNCHANGED queryVars

\* one iteration of _clean_gps's while loop: drop, then evaluate again
DropPass ==
    /\ pc = "loop"
    /\ rows_to_drop > 0
    /\ LET df  == drop(frames[md], Labels(fdp))
           sel == filter_data(df, args.op, args.thr)
       IN  /\ frames' = [frames EXCEPT ![md] = df]
           /\ fdp' = sel
           /\ rows_to_drop' = Len(sel)
    /\ sum_drop' = sum_drop + rows_to_drop
    /\ UNCHANGED <<md, args, ret, pc, calls, caller0, in0, out1>>
    /\ UNCHANGED queryVars

\* the loop ends; _clean_gps and the cleaning function return
Return ==
    /\ pc = "loop"
    /\ rows_to_drop = 0
    /\ ret' = IF args.inplace THEN "None" ELSE md
    /\ pc' = "done"
    /\ out1' = IF calls = 1
               THEN [points |-> Points(frames[md].rows), dropped |-> sum_drop]
               ELSE out1
    /\ UNCHANGED <<frames, md, args, fdp, rows_to_drop, sum_drop, calls, caller0, in0>>
    /\ UNCHANGED queryVars

\* the caller passes what the first call produced to the same operation again
Rerun ==
    /\ pc = "done"
    /\ calls = 1
    /\ args.op \in ConvergenceOps
    /\ LET out == IF args.inplace THEN frames.caller ELSE frames[ret]
       IN  /\ frames' = [caller |-> out, copy |-> EmptyFrame]
           /\ md' = "caller"
    /\ pc' = "again"
    /\ UNCHANGED <<args, fdp, rows_to_drop, sum_drop, ret, calls, caller0, in0, out1>>
    /\ UNCHANGED queryVars

Call2 ==
    /\ pc = "again"
    /\ Enter(args)
    /\ UNCHANGED out1
    /\ UNCHANGED queryVars

\* clean_trajectories_with_few_points, on a collection that has the column
FewPoints ==
    /\ pc = "idle"
    /\ \E min_points \in MinPoints, inplace \in BOOLEAN, label_tid \in TidLabels :
          LET b   == bind_move_data(frames, inplace)
              df  == reset_if_named(b.frames[b.md])
              idx == few_points_idx(df, min_points)
              out == IF Len(idx) > 0 THEN drop(df, Labels(idx)) ELSE df
          IN  /\ has_column(b.frames[b.md], label_tid)
              /\ frames' = [b.frames EXCEPT ![b.md] = out]
              /\ md' = b.md
              /\ args' = [op |-> "few_points", thr |-> min_points, inplace |-> inplace,
                          label_tid |-> label_tid]
              /\ fdp' = idx
              /\ rows_to_drop' = Len(idx)
              /\ sum_drop' = Len(idx)
              /\ ret' = IF inplace THEN "None" ELSE b.md
              /\ in0' = df
    /\ pc' = "done"
    /\ calls' = calls + 1
    /\ caller0' = frames.caller
    /\ UNCHANGED out1
    /\ UNCHANGED queryVars

\* clean_trajectories_with_few_points on a collection without the column
\* label_tid: KeyError
FewPointsRaise ==
    /\ pc = "idle"
    /\ \E min_points \in MinPoints, inplace \in BOOLEAN, label_tid \in TidLabels :
          LET b == bind_move_data(frames, inplace)
          IN  /\ ~has_column(b.frames[b.md], label_tid)
              /\ frames' = [b.frames EXCEPT ![b.md] = at_column_check(b.frames[b.md])]
              /\ md' = b.md
              /\ args' = [op |-> "few_points", thr |-> min_points, inplace |-> inplace,
                          label_tid |-> label_tid]
    /\ pc' = "error"
    /\ calls' = calls + 1
    /\ caller0' = frames.caller
    /\ UNCHANGED <<fdp, rows_to_drop, sum_drop, ret, in0, out1>>
    /\ UNCHANGED queryVars

\* clean_trajectories_short_and_few_points, up to the return of its call of
\* clean_trajectories_with_few_points(move_data, ..., inplace=True)
ShortFewStart ==
    /\ pc = "idle"
    /\ \E min_points \in MinPoints, min_dist \in Limits, inplace \in BOOLEAN :
          LET b   == bind_move_data(frames, inplace)
              df  == reset_if_named(b.frames[b.md])
              idx == few_points_idx(df, min_points)
          IN  /\ frames' = [b.frames EXCEPT ![b.md] = drop_if_any(df, idx)]
              /\ md' = b.md
              /\ args' = [op |-> "short_and_few", thr |-> min_points,
                          dist |-> min_dist, inplace |-> inplace]
              /\ fdp' = idx
              /\ rows_to_drop' = Len(idx)
              /\ sum_drop' = Len(idx)
              /\ in0' = df
    /\ pc' = "aggregate"
    /\ ret' = "pending"
    /\ calls' = calls + 1
    /\ caller0' = frames.caller
    /\ UNCHANGED out1
    /\ UNCHANGED queryVars

\* the rest of clean_trajectories_short_and_few_points: distance features,
\* the sum per trajectory, the drop of the short ones, the return
ShortFewFinish ==
    /\ pc = "aggregate"
    /\ LET df  == reset_if_named(
                      IF "dist_to_prev" \in frames[md].cols THEN frames[md]
                      ELSE generate_dist_features(frames[md]))
           idx == short_idx(df, args.dist)
       IN  /\ frames' = [frames EXCEPT ![md] = drop_if_any(df, idx)]
           /\ fdp' = idx
           /\ rows_to_drop' = Len(idx)
           /\ sum_drop' = sum_drop + Len(idx)
    /\ ret' = IF args.inplace THEN "None" ELSE md
    /\ pc' = "done"
    /\ UNCHANGED <<md, args, calls, caller0, in0, out1>>
    /\ UNCHANGED queryVars

\* clean_id_by_time_max
TimeMax ==
    /\ pc = "idle"
    /\ \E time_max \in Limits, inplace \in BOOLEAN :
          LET b   == bind_move_data(frames, inplace)
              df  == IF "time_to_prev" \in b.frames[b.md].cols THEN b.frames[b.md]
                     ELSE generate_dist_time_speed_features(b.frames[b.md])
              idx == time_idx(df, time_max)
          IN  /\ frames' = [b.frames EXCEPT ![b.md] = drop_if_any(df, idx)]
              /\ md' = b.md
              /\ args' = [op |-> "time_max", thr |-> time_max, inplace |-> inplace]
              /\ fdp' = idx
              /\ rows_to_drop' = Len(idx)
              /\ sum_drop' = Len(idx)
              /\ ret' = IF inplace THEN "None" ELSE b.md
              /\ in0' = df
    /\ pc' = "done"
    /\ calls' = calls + 1
    /\ caller0' = frames.caller
    /\ UNCHANGED out1
    /\ UNCHANGED queryVars

NextClean == Call \/ DropPass \/ Return \/ Rerun \/ Call2 \/ FewPoints
             \/ FewPointsRaise \/ ShortFewStart \/ ShortFewFinish \/ TimeMax

\* ------------------------------------------------------- similarity queries
\* The value of the constants MEDP, MEDT and TRAJ_ID is set outside the two
\* source files; an unwritten slot's id is rendered as the sentinel "empty",
\* which no trajectory of the candidate collection bears.
RefId == "R"
Ids == {"R", "A", "B", "C", "D"}
Measures == {"MEDP", "MEDT"}
Selectors == Measures \cup {"other"}
KnnDists == {1, 2, 5, 9}
RangeDists == {800, 950, 1000, 1500}
MinDists == {1000}

Inf == <<>>

\* this_distance < k_list.loc[n, 'distance'], the slot possibly np.Inf
Lt(d, slot) == slot = Inf \/ d < slot[1]

\* the reference trajectory: one point, not a row of move_df
traj == <<[src |-> "traj", ix |-> 0, id |-> RefId]>>

\* move_df.loc[move_df[id_] == traj_id]: the rows of one trajectory, in order
RowsOf(df, traj_id) ==
    Pick([i \in 1..Len(df) |-> [src |-> "move_df", ix |-> i - 1, id |-> df[i]]],
         {i \in 1..Len(df) : df[i] = traj_id})

\* Series.unique(): the distinct values in order of first appearance
RECURSIVE unique(_)
unique(s) ==
    IF s = <<>> THEN <<>>
    ELSE LET u == unique(SubSeq(s, 1, Len(s) - 1))
             x == s[Len(s)]
         IN  IF \E i \in 1..Len(u) : u[i] = x THEN u ELSE Append(u, x)

\* pd.DataFrame([[np.Inf, 'empty']] * k, columns=['distance', TRAJ_ID])
new_k_list(k) == [n \in 1..k |-> [distance |-> Inf, traj_id |-> "empty"]]

\* the first slot the candidate's distance is below, 0 when none
FirstSlotLe(kl, d) ==
    LET c == {n \in 1..Len(kl) : kl[n].distance = Inf \/ d <= kl[n].distance[1]}
    IN  IF c = {} THEN 0 ELSE CHOOSE n \in c : \A m \in c : n <= m

\* the scan taken from the last slot down
LastSlot(kl, d) ==
    LET c == {n \in 1..Len(kl) : Lt(d, kl[n].distance)}
    IN  IF c = {} THEN 0 ELSE CHOOSE n \in c : \A m \in c : m <= n

FirstSlot(kl, d) ==
    LET c == {n \in 1..Len(kl) : Lt(d, kl[n].distance)}
    IN  IF c = {} THEN 0 ELSE CHOOSE n \in c : \A m \in c : n <= m

\* for n in range(k): if this_distance < slot n: overwrite slot n; break
update_k_list(kl, traj_id, d) ==
    LET n == FirstSlot(kl, d)
    IN  IF n = 0 THEN kl
        ELSE [kl EXCEPT ![n] = [distance |-> <<d>>, traj_id |-> traj_id]]

\* for n in range(k): result = result.append(rows of slot n's trajectory)
RECURSIVE append_slots(_, _, _)
append_slots(res, df, kl) ==
    IF kl = <<>> THEN res
    ELSE append_slots(res \o RowsOf(df, kl[1].traj_id), df, Tail(kl))

\* knn_query's result = traj.copy()
knn_result_start == traj

\* range_query's result = traj.copy(); result.drop(result.index, inplace=True)
range_result_start == <<>>

range_test_le(d, min_dist) == d <= min_dist

\* dist_measure(...) < min_dist
range_test(d, min_dist) == d < min_dist

measure_known_any(distance) == TRUE

\* distance == MEDP or distance == MEDT; otherwise ValueError is raised
measure_known(distance) == distance \in Measures

NoQuery == [op |-> "none", k |-> 0, min_dist |-> 0, distance |-> "MEDP"]

Candidates == UNION {[1..n -> Ids] : n \in 0..MaxRows}

InitQuery ==
    /\ move_df \in Candidates
    /\ qargs = NoQuery
    /\ uniq = <<>>
    /\ at = 0
    /\ k_list = <<>>
    /\ visited = <<>>
    /\ result = <<>>
    /\ qpc = "idle"

\* range_query up to its loop
RangeStart ==
    /\ qpc = "idle"
    /\ \E m \in MinDists, distance \in Selectors :
          /\ measure_known(distance)
          /\ qargs' = [op |-> "range", k |-> 0, min_dist |-> m, distance |-> distance]
    /\ result' = range_result_start
    /\ uniq' = unique(move_df)
    /\ at' = 0
    /\ qpc' = "range"
    /\ UNCHANGED <<move_df, k_list, visited>>
    /\ UNCHANGED cleanVars

\* one iteration of range_query's loop; d is what dist_measure returns
RangeVisit ==
    /\ qpc = "range"
    /\ at < Len(uniq)
    /\ \E d \in RangeDists :
          LET traj_id == uniq[at + 1]
              this == RowsOf(move_df, traj_id)
          IN  /\ result' = IF range_test(d, qargs.min_dist)
                           THEN result \o this ELSE result
              /\ visited' = Append(visited, <<traj_id, d>>)
    /\ at' = at + 1
    /\ UNCHANGED <<move_df, qargs, uniq, k_list, qpc>>
    /\ UNCHANGED cleanVars

RangeReturn ==
    /\ qpc = "range"
    /\ at = Len(uniq)
    /\ qpc' = "done"
    /\ UNCHANGED <<move_df, qargs, uniq, at, k_list, visited, result>>
    /\ UNCHANGED cleanVars

\* knn_query up to its loop
KnnStart ==
    /\ qpc = "idle"
    /\ \E k \in 0..MaxK, distance \in Selectors :
          /\ measure_known(distance)
          /\ qargs' = [op |-> "knn", k |-> k, min_dist |-> 0, distance |-> distance]
          /\ k_list' = new_k_list(k)
    /\ uniq' = unique(move_df)
    /\ at' = 0
    /\ qpc' = "knn"
    /\ UNCHANGED <<move_df, visited, result>>
    /\ UNCHANGED cleanVars

\* one iteration of knn_query's loop for an id other than the reference's
KnnVisit ==
    /\ qpc = "knn"
    /\ at < Len(uniq)
    /\ uniq[at + 1] # traj[1].id
    /\ \E d \in KnnDists :
          /\ k_list' = update_k_list(k_list, uniq[at + 1], d)
          /\ visited' = Append(visited, <<uniq[at + 1], d>>)
    /\ at' = at + 1
    /\ UNCHANGED <<move_df, qargs, uniq, result, qpc>>
    /\ UNCHANGED cleanVars

\* the iteration for the reference's own id does nothing
KnnSkip ==
    /\ qpc = "knn"
    /\ at < Len(uniq)
    /\ uniq[at + 1] = traj[1].id
    /\ at' = at + 1
    /\ UNCHANGED <<move_df, qargs, uniq, k_list, visited, result, qpc>>
    /\ UNCHANGED cleanVars

\* the loop is over: build the result from the slots and return it
KnnReturn ==
    /\ qpc = "knn"
    /\ at = Len(uniq)
    /\ result' = append_slots(knn_result_start, move_df, k_list)
    /\ qpc' = "done"
    /\ UNCHANGED <<move_df, qargs, uniq, at, k_list, visited>>
    /\ UNCHANGED cleanVars

\* range_query with an unknown measure: ValueError, raised before the loop;
\* the emptied copy of traj is discarded and nothing is returned
RangeRaise ==
    /\ qpc = "idle"
    /\ \E m \in MinDists, distance \in Selectors :
          /\ ~measure_known(distance)
          /\ qargs' = [op |-> "range", k |-> 0, min_dist |-> m, distance |-> distance]
    /\ qpc' = "error"
    /\ UNCHANGED <<move_df, uniq, at, k_list, visited, result>>
    /\ UNCHANGED cleanVars

\* knn_query with an unknown measure: ValueError, raised after k_list is made
KnnRaise ==
    /\ qpc = "idle"
    /\ \E k \in 0..MaxK, distance \in Selectors :
          /\ ~measure_known(distance)
          /\ qargs' = [op |-> "knn", k |-> k, min_dist |-> 0, distance |-> distance]
          /\ k_list' = new_k_list(k)
    /\ qpc' = "error"
    /\ UNCHANGED <<move_df, uniq, at, visited, result>>
    /\ UNCHANGED cleanVars

NextQuery == RangeStart \/ RangeVisit \/ RangeReturn \/ RangeRaise
             \/ KnnStart \/ KnnVisit \/ KnnSkip \/ KnnReturn \/ KnnRaise

\* ------------------------------------------------------------ specifications
QueryIdle ==
    /\ move_df = <<>>
    /\ qargs = NoQuery
    /\ uniq = <<>>
    /\ at = 0
    /\ k_list = <<>>
    /\ visited = <<>>
    /\ result = <<>>
    /\ qpc = "idle"

CleanIdle ==
    /\ frames = [caller |-> EmptyFrame, copy |-> EmptyFrame]
    /\ md = "caller"
    /\ args = NoArgs
    /\ fdp = <<>>
    /\ rows_to_drop = 0
    /\ sum_drop = 0
    /\ ret = "pending"
    /\ pc = "idle"
    /\ calls = 0
    /\ caller0 = EmptyFrame
    /\ in0 = EmptyFrame
    /\ out1 = NoOut

CleanInit == InitClean /\ QueryIdle

QueryInit == InitQuery /\ CleanIdle

SpecClean == CleanInit /\ [][NextClean]_vars

SpecQuery == QueryInit /\ [][NextQuery]_vars

\* ------------------------------------------------------------------ claims
\* the collection the call worked on
Out == frames[md]

MaxThresholdOps == {"nearby_distance", "nearby_speed"}

Range(q) == {q[i] : i \in 1..Len(q)}

\* the rows of df that are not among the points kept
Dropped(df, kept) ==
    Pick(df.rows, {i \in 1..Len(df.rows) : Point(df.rows[i]) \notin Range(kept)})

\* the ids of the trajectories of a collection
IdsOf(rs) == {rs[i].id : i \in 1..Len(rs)}

\* the position of the first row of a trajectory
FirstOf(rs, tid) ==
    CHOOSE i \in 1..Len(rs) : rs[i].id = tid /\ \A j \in 1..(i - 1) : rs[j].id # tid

\* C1: every iteration of _clean_gps's loop that does not stop removes at
\* least one row: between two successive predicate evaluations the row count
\* strictly decreases, by the number of rows the predicate selected, and the
\* loop is left only when the predicate selects zero rows.
C1_LoopShrinks ==
    [][/\ (pc = "loop" /\ pc' = "loop") =>
              /\ rows_to_drop > 0
              /\ Len(frames'[md].rows) < Len(frames[md].rows)
              /\ Len(frames'[md].rows) = Len(frames[md].rows) - rows_to_drop
       /\ (pc = "loop" /\ pc' = "done") => filter_data(Out, args.op, args.thr) = <<>>
      ]_vars

C1_Witness ==
    /\ pc = "done"
    /\ args.op \in ConvergenceOps
    /\ sum_drop > 0
    /\ Len(Out.rows) > 0

\* C2: after a convergence cleaning call returns, the first point of every
\* trajectory of the output has NaN dist_to_prev/time_to_prev and every other
\* point's stored features are the distance/time from its current predecessor.
C2_FeaturesCurrent ==
    (pc = "done" /\ args.op \in ConvergenceOps) =>
        \A i \in 1..Len(Out.rows) :
            /\ Out.rows[i].dist = DistToPrev(Out.rows, i)
            /\ "time_to_prev" \in Out.cols =>
                   Out.rows[i].time = TimeToPrev(Out.rows, i)

\* C6: the speed-max-radius predicate flags a row exactly when its own
\* speed_to_prev or the following row's speed_to_prev exceeds speed_max, NaN
\* counting as zero.
C6_FlagsOwnOrNext ==
    (pc = "loop" /\ args.op = "speed_max_radius") =>
        Labels(fdp) =
            {Out.rows[i].ix : i \in
                {j \in 1..Len(Out.rows) :
                    \/ Gt(nan_to_num(Out.rows[j].speed), args.thr)
                    \/ /\ j < Len(Out.rows)
                       /\ Gt(nan_to_num(Out.rows[j + 1].speed), args.thr)}}

C8_Idempotent ==
    (pc = "done" /\ calls = 2) =>
        /\ Points(Out.rows) = out1.points
        /\ sum_drop = 0

C8_Witness ==
    /\ pc = "done"
    /\ calls = 2
    /\ out1.dropped > 0
    /\ Len(out1.points) > 1

Cleaned(df) ==
    CASE args.op = "few_points" -> few_points_idx(df, args.thr) = <<>>
      [] args.op = "short_and_few" ->
             few_points_idx(df, args.thr) = <<>> /\ short_idx(df, args.dist) = <<>>
      [] args.op = "time_max" -> time_idx(df, args.thr) = <<>>
      [] OTHER -> filter_data(df, args.op, args.thr) = <<>>

C10_Modes ==
    pc = "done" =>
        IF args.inplace
        THEN /\ ret = "None"
             /\ Cleaned(frames.caller)
             /\ Len(frames.caller.rows) = Len(caller0.rows) - sum_drop
        ELSE /\ ret = "copy"
             /\ frames.caller = caller0
             /\ Cleaned(frames[ret])
             /\ Len(frames[ret].rows) = Len(caller0.rows) - sum_drop

C10_Witness ==
    /\ pc = "done"
    /\ ~args.inplace
    /\ sum_drop > 0
    /\ caller0.named
    /\ Len(frames.copy.rows) > 0

\* ascending insertion of x into an ascending sequence
RECURSIVE InsertAsc(_, _)
InsertAsc(q, x) ==
    IF q = <<>> THEN <<x>>
    ELSE IF x <= q[1] THEN <<x>> \o q
    ELSE <<q[1]>> \o InsertAsc(Tail(q), x)

RECURSIVE SortAsc(_)
SortAsc(q) == IF q = <<>> THEN <<>> ELSE InsertAsc(SortAsc(Tail(q)), q[1])

\* the distances measured so far, and those the Top-K List holds
SeenDists == [i \in 1..Len(visited) |-> visited[i][2]]

ListDists ==
    LET f == SelectSeq(k_list, LAMBDA e : e.distance # Inf)
    IN  [i \in 1..Len(f) |-> f[i].distance[1]]

Smaller(a, b) == IF a < b THEN a ELSE b

\* C3: after any prefix of the candidates the Top-K List holds the k smallest
\* distances among those processed (all of them when fewer than k); visiting
\* A(5), B(2), C(9), D(1) with k = 2 leaves slot 0 = D(1), slot 1 = B(2).
C3_KSmallest ==
    (qargs.op = "knn" /\ qpc \in {"knn", "done"}) =>
        /\ SortAsc(ListDists) =
               SubSeq(SortAsc(SeenDists), 1, Smaller(qargs.k, Len(visited)))
        /\ (qargs.k = 2 /\ visited = << <<"A", 5>>, <<"B", 2>>, <<"C", 9>>, <<"D", 1>> >>) =>
               k_list = << [distance |-> <<1>>, traj_id |-> "D"],
                           [distance |-> <<2>>, traj_id |-> "B"] >>

\* the rows of the written slots 1..n, in slot order
RECURSIVE SlotRows(_)
SlotRows(n) ==
    IF n = 0 THEN <<>>
    ELSE SlotRows(n - 1) \o (IF k_list[n].distance = Inf THEN <<>>
                             ELSE RowsOf(move_df, k_list[n].traj_id))

\* C4: knn_query's result is the concatenation, in slot order, of the rows of
\* each written slot's trajectory and nothing else: no row for a sentinel
\* slot, none of the reference trajectory's own points.
C4_ResultIsSlots ==
    (qargs.op = "knn" /\ qpc = "done") =>
        /\ result = SlotRows(Len(k_list))
        /\ \A i \in 1..Len(result) : result[i].src # "traj"

\* position in move_df of the first row of a trajectory
FirstSeen(tid) ==
    CHOOSE i \in 1..Len(move_df) :
        move_df[i] = tid /\ \A j \in 1..(i - 1) : move_df[j] # tid

\* the measure put the trajectory strictly below min_dist
Within(tid) ==
    \E i \in 1..Len(visited) : visited[i][1] = tid /\ visited[i][2] < qargs.min_dist

C11_UnknownMeasureRaises ==
    (qargs.op \in {"range", "knn"} /\ qargs.distance \notin {"MEDP", "MEDT"}) =>
        /\ qpc = "error"
        /\ visited = <<>>
        /\ uniq = <<>>
        /\ at = 0
        /\ result = <<>>

C11_Witness ==
    /\ qpc = "error"
    /\ qargs.op = "knn"
    /\ qargs.distance = "other"
    /\ Len(move_df) > 1

\* a distance is at most another, np.Inf the largest
DistLeq(a, b) == b = Inf \/ (a # Inf /\ a[1] <= b[1])

\* C16: at every point of knn_query's loop the Top-K List is non-decreasing
\* by distance in slot order, the infinite sentinels included.
C16_ListAscending ==
    qargs.op = "knn" =>
        \A n, m \in 1..Len(k_list) :
            n < m => DistLeq(k_list[n].distance, k_list[m].distance)

C16_Witness ==
    /\ qargs.op = "knn"
    /\ qpc = "knn"
    /\ Len(k_list) = 2
    /\ Len(visited) = 3
    /\ k_list[2].distance # Inf
    /\ k_list[1].traj_id = visited[3][1]
    /\ k_list[2].traj_id = visited[2][1]

\* the smallest distance measured so far, and where it was first measured
MinSeen == CHOOSE d \in Range(SeenDists) : \A e \in Range(SeenDists) : d <= e

FirstAt(d) ==
    CHOOSE i \in 1..Len(visited) :
        visited[i][2] = d /\ \A j \in 1..(i - 1) : visited[j][2] # d

\* C17: for k >= 1, once a candidate has been processed slot 0 holds the
\* smallest distance among the processed candidates with the id of the first
\* candidate that attained it; the reference's own id occupies no slot.
C17_SlotZeroIsNearest ==
    (qargs.op = "knn" /\ qargs.k >= 1 /\ visited # <<>>) =>
        /\ k_list[1].distance = <<MinSeen>>
        /\ k_list[1].traj_id = visited[FirstAt(MinSeen)][1]
        /\ \A n \in 1..Len(k_list) : k_list[n].traj_id # RefId

C17_Witness ==
    /\ qargs.op = "knn"
    /\ qargs.k >= 1
    /\ Len(visited) = 2
    /\ visited[1][2] = visited[2][2]
    /\ k_list[1].traj_id = visited[1][1]
    /\ RefId \in Range(move_df)

\* the rows of a collection whose trajectory satisfies keep
RowsOfKept(df, keep(_)) == SelectSeq(df.rows, LAMBDA r : keep(r.id))

\* C12: clean_trajectories_with_few_points removes all rows of a trajectory
\* if and only if the trajectory has fewer than min_points_per_trajectory
\* rows, and no row of any other trajectory; with min_points_per_trajectory
\* = 2 a trajectory of one point is removed and one of two points is kept.
C12_FewPointsWholeGroups ==
    (pc = "done" /\ args.op = "few_points") =>
        LET size(tid) == GroupSize(in0.rows, tid)
            left(tid) == GroupSize(Out.rows, tid)
        IN  /\ \A tid \in IdsOf(in0.rows) :
                   /\ size(tid) < args.thr => left(tid) = 0
                   /\ size(tid) >= args.thr => left(tid) = size(tid)
            /\ Out.rows = RowsOfKept(in0, LAMBDA tid : size(tid) >= args.thr)
            /\ args.thr = 2 =>
                   \A tid \in IdsOf(in0.rows) :
                       /\ size(tid) = 1 => tid \notin IdsOf(Out.rows)
                       /\ size(tid) = 2 => left(tid) = 2

C12_Witness ==
    /\ pc = "done"
    /\ args.op = "few_points"
    /\ args.thr = 2
    /\ \E a, b \in IdsOf(in0.rows) :
           /\ GroupSize(in0.rows, a) = 1
           /\ GroupSize(in0.rows, b) = 2
           /\ IdsOf(Out.rows) = {b}
    /\ Len(Out.rows) = 2

\* the collection whose dist_to_prev clean_trajectories_short_and_few_points
\* sums: the column of the input if it has one, a generated one otherwise
DistFrame == IF "dist_to_prev" \in in0.cols THEN in0 ELSE generate_dist_features(in0)

\* C13: clean_trajectories_short_and_few_points applies the few-points
\* filter before it aggregates distance, and a trajectory survives if and
\* only if it has at least min_points_per_trajectory rows and its summed
\* dist_to_prev is not below min_trajectory_distance; a surviving
\* trajectory keeps all its rows.
C13_ShortAndFew ==
    LET size(tid)    == GroupSize(in0.rows, tid)
        total(tid)   == GroupSum(DistFrame.rows, tid, "dist_to_prev")
        enough(tid)  == size(tid) >= args.thr
        survive(tid) == enough(tid) /\ ~(total(tid) < args.dist)
    IN  /\ (pc = "aggregate") =>
               /\ Out.rows = RowsOfKept(in0, enough)
               /\ sum_drop = Len(in0.rows) - Len(Out.rows)
        /\ (pc = "done" /\ args.op = "short_and_few") =>
               /\ Points(Out.rows) = Points(RowsOfKept(in0, survive))
               /\ \A tid \in IdsOf(in0.rows) :
                      GroupSize(Out.rows, tid) = IF survive(tid) THEN size(tid) ELSE 0

C13_Witness ==
    /\ pc = "done"
    /\ args.op = "short_and_few"
    /\ args.thr = 2
    /\ args.dist >= 1
    /\ \E a, b \in IdsOf(in0.rows) :
           /\ GroupSize(in0.rows, a) = 1
           /\ GroupSize(in0.rows, b) = 2
           /\ GroupSum(DistFrame.rows, b, "dist_to_prev") = args.dist
           /\ IdsOf(Out.rows) = {b}

C15_MissingColumnRaises ==
    /\ (args.op = "few_points" /\ ~has_column(caller0, args.label_tid)) => pc = "error"
    /\ (pc = "error") =>
           /\ args.op = "few_points"
           /\ ~has_column(caller0, args.label_tid)
           /\ frames.caller = caller0
           /\ Out = caller0
           /\ ret = "pending"
           /\ sum_drop = 0

C15_Witness ==
    /\ pc = "error"
    /\ args.inplace
    /\ caller0.named
    /\ few_points_idx(caller0, args.thr) # <<>>
    /\ Len(few_points_idx(caller0, args.thr)) < Len(caller0.rows)

\* the rows a predicate leaves of a collection
Unflagged(df, op, thr) ==
    SelectSeq(df.rows, LAMBDA r : r.ix \notin Labels(filter_data(df, op, thr)))

====
